---- MODULE Spec2Model ----
(***************************************************************************)
(* Model of public/loader.js (the YDTB loader): the manifest-driven        *)
(* resolution-and-injection pipeline run by initApp, the entry/stylesheet  *)
(* selection of findMainAssets and the URL joining of loadJavaScript,      *)
(* loadStylesheet, joinUrl and window.__resolveAssetUrl.                   *)
(*                                                                         *)
(* JavaScript strings are sequences of one-character strings, so that      *)
(* startsWith, endsWith, includes, slice and concatenation are computed    *)
(* character by character as the code computes them.                       *)
(***************************************************************************)
EXTENDS Integers, Sequences, FiniteSets, TLC

VARIABLES
    baseUrl,         \* config.baseUrl
    readyState,      \* document.readyState when the loader script runs
    pc,              \* position of the pipeline (the await it is suspended at)
    promise,         \* state of the promise returned by initApp
    globalManifest,  \* let globalManifest (null until the manifest is parsed)
    assets,          \* result of findMainAssets
    document,        \* the host page: root element, its content, head children
    window,          \* globals installed by setupAssetResolver
    linkState,       \* the stylesheet link element's load state
    scriptState,     \* the entry script element's load state
    lastError,       \* the error caught by initApp's catch block
    requests,        \* URLs passed to fetch, in order
    log,             \* observable calls, in order
    urlArg,          \* argument of a direct call of a URL function
    urlOut,          \* results of direct calls of the URL functions
    image,           \* an img element of the application: its src assignment
    mount            \* container selection and error rendering by mount strategy

vars == <<baseUrl, readyState, pc, promise, globalManifest, assets, document,
          window, linkState, scriptState, lastError, requests, log, urlArg,
          urlOut, image, mount>>

----------------------------------------------------------------------------
(* Bounds *)

MaxEntries == 2       \* entries of a manifest
MaxTailLen == 2       \* characters after the scheme or slash prefix of a path

----------------------------------------------------------------------------
(* String literals of the source *)

PREFIX == <<"Y", "D", "T", "B", ".">>
MAIN_DOT == <<"m", "a", "i", "n", ".">>
SLASH_MAIN == <<"/", "m", "a", "i", "n">>
HTTP == <<"h", "t", "t", "p", ":", "/", "/">>
HTTPS == <<"h", "t", "t", "p", "s", ":", "/", "/">>
DATA == <<"d", "a", "t", "a", ":">>
BLOB == <<"b", "l", "o", "b", ":">>
SLASH == <<"/">>
SRC_PREFIX == <<"s", "r", "c", "/">>
SEP == <<",", " ">>
manifestPath == <<"/", ".", "v", "i", "t", "e", "/", "m", "a", "n", "i", "f", "e", "s", "t", ".", "j", "s", "o", "n">>

\* the value of a missing property, and of a result not yet produced
Undefined == <<"#undefined">>
Unset == <<"#unset">>

----------------------------------------------------------------------------
(* String.prototype methods *)

StartsWith(s, p) == Len(s) >= Len(p) /\ SubSeq(s, 1, Len(p)) = p

EndsWith(s, p) == Len(s) >= Len(p) /\ SubSeq(s, Len(s) - Len(p) + 1, Len(s)) = p

Includes(s, p) == \E i \in 1..(Len(s) - Len(p) + 1) : SubSeq(s, i, i + Len(p) - 1) = p

\* s.slice(0, -1)
DropLast(s) == SubSeq(s, 1, Len(s) - 1)

\* s.substring(1)
DropFirst(s) == SubSeq(s, 2, Len(s))

RECURSIVE Join(_, _)
\* Array.prototype.join
Join(strs, sep) ==
    IF Len(strs) = 0 THEN <<>>
    ELSE IF Len(strs) = 1 THEN strs[1]
    ELSE strs[1] \o sep \o Join(Tail(strs), sep)

\* Array.prototype.find over the results of the callback on each element:
\* index of the first element the callback accepts, 0 if none
Find(hits) ==
    LET found == {i \in DOMAIN hits : hits[i]}
    IN  IF found = {} THEN 0 ELSE CHOOSE i \in found : \A j \in found : i <= j

RECURSIVE FlatCss(_)
\* Object.values(manifest).flatMap(entry => entry.css || [])
FlatCss(manifest) ==
    IF Len(manifest) = 0 THEN <<>>
    ELSE Head(manifest).css \o FlatCss(Tail(manifest))

\* Object.keys(manifest)
ObjectKeys(manifest) == [i \in 1..Len(manifest) |-> manifest[i].key]

----------------------------------------------------------------------------
(* Errors *)

Error(kind, text) == [kind |-> kind, text |-> text]

NoError == Error("none", <<>>)

NoAssets == [ok |-> FALSE, js |-> <<>>, css |-> <<>>, err |-> NoError]

----------------------------------------------------------------------------
(* findMainAssets: a manifest is the sequence of its entries in key order, *)
(* each entry [key, file, isEntry, css]; a missing isEntry is FALSE and a  *)
(* missing css is the empty list (the code treats them alike).  css = <<>> *)
(* in the result is the falsy "no stylesheet" value.                       *)

IsRule1(entry) == entry.isEntry /\ entry.file # <<>> /\ StartsWith(entry.file, PREFIX)

\* IsRule2 with the naming pattern required of the fallback too
IsRule2_PrefixOnly(entry) == entry.isEntry /\ StartsWith(entry.file, PREFIX)

IsRule2(entry) == entry.isEntry /\ entry.file # <<>>

IsMainKey(key) == Includes(key, MAIN_DOT) \/ Includes(key, SLASH_MAIN)

\* MainJsIndex with the any-entry fallback tried before the prefixed entry
MainJsIndex_Rule2First(manifest) ==
    LET i1 == Find([i \in DOMAIN manifest |-> IsRule1(manifest[i])])
        i2 == Find([i \in DOMAIN manifest |-> manifest[i].isEntry /\ manifest[i].file # <<>>])
        i3 == Find([i \in DOMAIN manifest |-> IsMainKey(manifest[i].key)])
    IN  IF i2 # 0 THEN i2 ELSE IF i1 # 0 THEN i1 ELSE i3

\* index of mainJsEntry in the manifest, 0 when it stays undefined
MainJsIndex(manifest) ==
    LET keys == ObjectKeys(manifest)
        i1 == Find([i \in DOMAIN manifest |-> IsRule1(manifest[i])])
        i2 == Find([i \in DOMAIN manifest |-> IsRule2(manifest[i])])
        i3 == Find([i \in DOMAIN keys |-> IsMainKey(keys[i])])
    IN  IF i1 # 0 THEN i1 ELSE IF i2 # 0 THEN i2 ELSE i3

IsPrefixed(cssPath) == StartsWith(cssPath, PREFIX)

\* MainCssFile taking the last path of the entry's css list
MainCssFile_LastOwn(manifest) ==
    LET idx == MainJsIndex(manifest)
        cssFiles == FlatCss(manifest)
    IN  IF idx # 0 /\ Len(manifest[idx].css) > 0
        THEN manifest[idx].css[Len(manifest[idx].css)]
        ELSE IF Len(cssFiles) > 0 THEN cssFiles[1] ELSE <<>>

\* mainCssFile
MainCssFile(manifest) ==
    LET idx == MainJsIndex(manifest)
        cssFiles == FlatCss(manifest)
        hit == Find([i \in DOMAIN cssFiles |-> IsPrefixed(cssFiles[i])])
    IN  IF idx # 0 /\ Len(manifest[idx].css) > 0 THEN manifest[idx].css[1]
        ELSE IF hit # 0 THEN cssFiles[hit]
        ELSE IF Len(cssFiles) > 0 THEN cssFiles[1]
        ELSE <<>>

\* NoEntryError naming only the first key
NoEntryError_FirstKey(manifest) ==
    Error("NoEntry", IF Len(manifest) = 0 THEN <<>> ELSE manifest[1].key)

NoEntryError(manifest) == Error("NoEntry", Join(ObjectKeys(manifest), SEP))

findMainAssets(manifest) ==
    LET idx == MainJsIndex(manifest)
    IN  IF idx = 0
        THEN [ok |-> FALSE, js |-> <<>>, css |-> <<>>, err |-> NoEntryError(manifest)]
        ELSE [ok |-> TRUE, js |-> manifest[idx].file, css |-> MainCssFile(manifest),
              err |-> NoError]

----------------------------------------------------------------------------
(* URL construction *)

\* loadJavaScript / loadStylesheet: fullUrl
FullUrl(base, url) == (IF EndsWith(base, SLASH) THEN base ELSE base \o SLASH) \o url

\* joinUrl of setupAssetResolver
joinUrl(base, path) ==
    IF path = <<>> THEN base
    ELSE LET baseWithoutSlash == IF EndsWith(base, SLASH) THEN DropLast(base) ELSE base
             pathWithoutSlash == IF StartsWith(path, SLASH) THEN DropFirst(path) ELSE path
         IN  baseWithoutSlash \o SLASH \o pathWithoutSlash

\* resolveAssetUrl concatenating instead of joining
resolveAssetUrl_Concat(base, assetPath) ==
    IF assetPath = <<>> THEN <<>>
    ELSE IF StartsWith(assetPath, HTTP) \/ StartsWith(assetPath, HTTPS) THEN assetPath
    ELSE base \o assetPath

\* window.__resolveAssetUrl
resolveAssetUrl(base, assetPath) ==
    IF assetPath = <<>> THEN <<>>
    ELSE IF StartsWith(assetPath, HTTP) \/ StartsWith(assetPath, HTTPS) THEN assetPath
    ELSE joinUrl(base, assetPath)

----------------------------------------------------------------------------
(* The asset map and the Image.prototype src setter of setupAssetResolver. *)
(* The asset map is a function from original paths to published paths.     *)

\* entry.assets && Array.isArray(entry.assets): a missing list maps nothing
AssetsOf(entry) == IF "assets" \in DOMAIN entry THEN entry.assets ELSE <<>>

\* assetMap[key] = value
Put(map, key, value) ==
    [k \in (DOMAIN map) \cup {key} |-> IF k = key THEN value ELSE map[k]]

\* assetMap[key] = value, and the same for the key without its src/ prefix
PutWithStripped(map, key, value) ==
    LET m1 == Put(map, key, value)
    IN  IF StartsWith(key, SRC_PREFIX)
        THEN Put(m1, SubSeq(key, Len(SRC_PREFIX) + 1, Len(key)), value)
        ELSE m1

RECURSIVE MapAssets(_, _, _)
\* entry.assets.forEach(asset => ...)
MapAssets(map, manifest, assetList) ==
    IF assetList = <<>> THEN map
    ELSE LET asset == Head(assetList)
             original == Find([i \in DOMAIN manifest |-> manifest[i].file = asset])
             m1 == IF original # 0
                   THEN PutWithStripped(map, manifest[original].key, asset)
                   ELSE map
         IN  MapAssets(Put(m1, asset, asset), manifest, Tail(assetList))

RECURSIVE MapEntries(_, _, _)
\* for (const [key, entry] of Object.entries(globalManifest)), from entry i on
MapEntries(map, manifest, i) ==
    IF i > Len(manifest) THEN map
    ELSE LET entry == manifest[i]
             m1 == IF entry.file # <<>>
                   THEN PutWithStripped(map, entry.key, entry.file)
                   ELSE map
         IN  MapEntries(MapAssets(m1, manifest, AssetsOf(entry)), manifest, i + 1)

\* const assetMap, after the loop over the manifest
AssetMap(manifest) == MapEntries(<<>>, manifest, 1)

\* the setter's test for a URL it transforms
IsRelative(url) ==
    /\ ~StartsWith(url, HTTP)
    /\ ~StartsWith(url, HTTPS)
    /\ ~StartsWith(url, DATA)
    /\ ~StartsWith(url, BLOB)

\* LayerSet without the test for absolute, data: and blob: values
LayerSet_NoSchemeTest(layer, url) ==
    IF url = <<>> THEN url
    ELSE LET normalizedPath == IF StartsWith(url, SLASH) THEN DropFirst(url) ELSE url
         IN  IF normalizedPath \in DOMAIN layer.assetMap
             THEN joinUrl(layer.base, layer.assetMap[normalizedPath])
             ELSE joinUrl(layer.base, normalizedPath)

\* one installed setter: the value it hands to the setter it wrapped
LayerSet(layer, url) ==
    IF url = <<>> THEN url
    ELSE IF IsRelative(url)
    THEN LET normalizedPath == IF StartsWith(url, SLASH) THEN DropFirst(url) ELSE url
         IN  IF normalizedPath \in DOMAIN layer.assetMap
             THEN joinUrl(layer.base, layer.assetMap[normalizedPath])
             ELSE joinUrl(layer.base, normalizedPath)
    ELSE url

RECURSIVE SetThrough(_, _)
\* img.src = url through the installed setters, the last installed first:
\* the value reaching the native setter, the setters entered, the rewrites made
SetThrough(layers, url) ==
    IF layers = <<>> THEN [native |-> url, calls |-> 0, rewrites |-> 0]
    ELSE LET k == Len(layers)
             inner == SetThrough(SubSeq(layers, 1, k - 1), LayerSet(layers[k], url))
         IN  [native |-> inner.native,
              calls |-> inner.calls + 1,
              rewrites |-> inner.rewrites + (IF url # <<>> /\ IsRelative(url) THEN 1 ELSE 0)]

\* fetchManifest: manifestUrl
ManifestUrl(base) == (IF EndsWith(base, SLASH) THEN DropLast(base) ELSE base) \o manifestPath

----------------------------------------------------------------------------
(* Input domains *)

BaseNoSlash == <<"h", "t", "t", "p", "s", ":", "/", "/", "x">>
BaseSlash == <<"h", "t", "t", "p", "s", ":", "/", "/", "x", "/">>

KeyIndex == <<"i", "n", "d", "e", "x", ".", "h", "t", "m", "l">>
KeyMainTs == <<"m", "a", "i", "n", ".", "t", "s">>
KeySrcMain == <<"s", "r", "c", "/", "m", "a", "i", "n">>
KeySrcApp == <<"s", "r", "c", "/", "A", "p", "p", ".", "t", "s", "x">>
FileYdtb == <<"Y", "D", "T", "B", ".", "j", "s">>
FileApp == <<"a", "p", "p", ".", "j", "s">>
CssA == <<"a", ".", "c", "s", "s">>
CssB == <<"b", ".", "c", "s", "s">>
CssYdtb == <<"Y", "D", "T", "B", ".", "c", "s", "s">>

Keys == {KeyIndex, KeyMainTs, KeySrcMain, KeySrcApp}
Files == {FileYdtb, FileApp}
CssLists == {<<>>, <<CssA, CssB>>, <<CssYdtb>>, <<CssA, CssYdtb>>}

\* every entry of a build manifest names its published file
Entries == [key : Keys, file : Files, isEntry : BOOLEAN, css : CssLists]

\* JSON objects have distinct keys
ManifestsOfLen(n) ==
    {m \in [1..n -> Entries] : \A i, j \in 1..n : i # j => m[i].key # m[j].key}

ManifestsUpTo(n) == UNION {ManifestsOfLen(k) : k \in 0..n}

\* config.baseUrl: the two slash variants, the empty string and a missing value
BaseUrls == {BaseNoSlash, BaseSlash, <<>>, Undefined}

\* the url(...) of the root element's inline background style as
\* patchExistingImages finds it, Unset when the element has no such style
BackgroundPath == <<"b", "g", ".", "p", "n", "g">>
RootStyles == {Unset, BackgroundPath, HTTPS \o BackgroundPath}

\* globalManifest: null before the manifest is parsed, then the parsed body;
\* "nullEntry" is a JSON object with a null value, "jsonNull" the body null
NullManifest == [shape |-> "unset", entries |-> <<>>]
ObjectManifest(m) == [shape |-> "object", entries |-> m]
ParsedBodies ==
    {ObjectManifest(m) : m \in ManifestsUpTo(MaxEntries)}
        \cup {[shape |-> "nullEntry", entries |-> <<>>], [shape |-> "jsonNull", entries |-> <<>>]}

----------------------------------------------------------------------------
(* The page *)

NoPanel == [shown |-> FALSE, literal |-> "", err |-> NoError]
Panel(message) == [shown |-> TRUE, literal |-> message.literal, err |-> message.err]

ManifestMessage == [literal |-> "Failed to load application manifest.", err |-> NoError]
ResourceMessage(error) == [literal |-> "Failed to load application resources: ", err |-> error]

Element(tag, url) == [tag |-> tag, url |-> url]

InitDocument(rootPresent) ==
    [rootPresent |-> rootPresent, rootHTML |-> NoPanel, head |-> <<>>, touched |-> FALSE,
     rootStyleFound |-> Unset, rootStyleLeft |-> Unset]

NoUrlOut == [joinUrl |-> Unset, resolveAssetUrl |-> Unset]

\* resolverBase is the config.baseUrl the installed __resolveAssetUrl closes
\* over; srcLayers are the installed src setters, each closing over its
\* loader's config.baseUrl and assetMap, in order of installation
InitWindow ==
    [resolveAssetUrl |-> FALSE, imageSrcPatched |-> FALSE, errorListeners |-> 0,
     resolverBase |-> Unset, srcLayers |-> <<>>]

\* window.__resolveAssetUrl = function (assetPath) {...}
InstallResolver(win, base) ==
    [win EXCEPT !.resolveAssetUrl = TRUE, !.resolverBase = base]

\* Object.defineProperty(Image.prototype, 'src', ...) over the current
\* descriptor, and the error listener added after it
InstallInterception(win, base, manifest) ==
    [win EXCEPT
        !.imageSrcPatched = TRUE,
        !.srcLayers = Append(@, [base |-> base, assetMap |-> AssetMap(manifest)]),
        !.errorListeners = @ + 1]

\* a page on which no loader runs against configured containers
NoMount ==
    [mountStrategy |-> "first", showErrors |-> TRUE, elements |-> <<>>,
     stage |-> "None", error |-> NoError]

\* the img element before any assignment to its src
NoImage == [assigned |-> Unset, native |-> Unset, calls |-> 0, rewrites |-> 0]

----------------------------------------------------------------------------
(* The pipeline.  A run segment (the code between two awaits) is a function *)
(* on the record of the variables it may write.                             *)

St ==
    [pc |-> pc, promise |-> promise, globalManifest |-> globalManifest, assets |-> assets,
     document |-> document, window |-> window, linkState |-> linkState,
     scriptState |-> scriptState, lastError |-> lastError, requests |-> requests,
     log |-> log]

ApplyPipeline(st) ==
    /\ pc' = st.pc
    /\ promise' = st.promise
    /\ globalManifest' = st.globalManifest
    /\ assets' = st.assets
    /\ document' = st.document
    /\ window' = st.window
    /\ linkState' = st.linkState
    /\ scriptState' = st.scriptState
    /\ lastError' = st.lastError
    /\ requests' = st.requests
    /\ log' = st.log

Apply(st) ==
    /\ ApplyPipeline(st)
    /\ UNCHANGED <<baseUrl, readyState, urlArg, urlOut, image, mount>>

Logged(st, event) == [st EXCEPT !.log = Append(@, event)]

showErrorMessage(st, message) ==
    [Logged(st, "showErrorMessage") EXCEPT
        !.document.touched = TRUE,
        !.document.rootHTML = IF st.document.rootPresent THEN Panel(message) ELSE @]

\* InitAppCatch rethrowing: initApp's promise rejects
InitAppCatch_Rethrow(st, error) ==
    [st EXCEPT !.pc = "Failed", !.lastError = error, !.promise = "rejected"]

\* initApp: catch (error)
InitAppCatch(st, error) ==
    [showErrorMessage(st, ResourceMessage(error)) EXCEPT
        !.pc = "Failed", !.lastError = error, !.promise = "fulfilled"]

\* fetchManifest: catch (error), which rethrows into initApp's catch
FetchManifestCatch(st, error) ==
    InitAppCatch(showErrorMessage(st, ManifestMessage), error)

loadJavaScript(st, url) ==
    [Logged(st, "loadJavaScript") EXCEPT
        !.document.touched = TRUE,
        !.document.head = Append(@, Element("script", FullUrl(baseUrl, url))),
        !.scriptState = "pending",
        !.pc = "JsLoading"]

loadStylesheet(st, url) ==
    [Logged(st, "loadStylesheet") EXCEPT
        !.document.touched = TRUE,
        !.document.head = Append(@, Element("link", FullUrl(baseUrl, url))),
        !.linkState = "pending",
        !.pc = "CssLoading"]

\* setupAssetResolver up to the asset-map loop, where a null entry throws
SetupResolverFunction(st) ==
    [Logged(st, "setupAssetResolver") EXCEPT !.window = InstallResolver(@, baseUrl)]

\* SetupInterception finding the src descriptor not configurable: the setter
\* is left as it was
SetupInterception_NotConfigurable(st) ==
    [st EXCEPT
        !.window.errorListeners = @ + 1,
        !.document.touched = TRUE,
        !.document.head = @ \o <<Element("inline-script", <<>>), Element("meta", <<>>)>>]

\* setupAssetResolver after the asset-map loop
SetupInterception(st) ==
    [st EXCEPT
        !.window = InstallInterception(@, baseUrl, st.globalManifest.entries),
        !.document.touched = TRUE,
        !.document.head = @ \o <<Element("inline-script", <<>>), Element("meta", <<>>)>>]

\* LoadAssets treating a manifest without a stylesheet as a failure
LoadAssets_CssRequired(st) ==
    LET found == IF st.globalManifest.shape = "jsonNull"
                 THEN [NoAssets EXCEPT !.err = Error("TypeError", <<>>)]
                 ELSE findMainAssets(st.globalManifest.entries)
        s1 == [Logged(st, "findMainAssets") EXCEPT !.assets = found]
    IN  IF ~found.ok THEN InitAppCatch(Logged(s1, "throw"), found.err)
        ELSE IF found.css # <<>> THEN loadStylesheet(s1, found.css)
        ELSE InitAppCatch(Logged(s1, "throw"), Error("NoStylesheet", <<>>))

\* initApp from "4. Find the main assets" to the next await
LoadAssets(st) ==
    LET found == IF st.globalManifest.shape = "jsonNull"
                 THEN [NoAssets EXCEPT !.err = Error("TypeError", <<>>)]
                 ELSE findMainAssets(st.globalManifest.entries)
        s1 == [Logged(st, "findMainAssets") EXCEPT !.assets = found]
    IN  IF ~found.ok THEN InitAppCatch(Logged(s1, "throw"), found.err)
        ELSE IF found.css # <<>> THEN loadStylesheet(s1, found.css)
        ELSE loadJavaScript(s1, found.js)

\* AfterManifest without setupAssetResolver
AfterManifest_SkipResolver(st, body) ==
    IF body.shape = "nullEntry"
    THEN InitAppCatch(Logged([st EXCEPT !.globalManifest = body], "throw"),
                      Error("TypeError", <<>>))
    ELSE LoadAssets([st EXCEPT !.globalManifest = body])

\* initApp from the resumption after fetchManifest to the next await
AfterManifest(st, body) ==
    LET s1 == SetupResolverFunction([st EXCEPT !.globalManifest = body])
    IN  IF body.shape = "nullEntry"
        THEN InitAppCatch(Logged(s1, "throw"), Error("TypeError", <<>>))
        ELSE LoadAssets([SetupInterception(s1) EXCEPT !.window.errorListeners = @ + 1])

\* initApp up to the first await, with fetchManifest up to its first await
initApp(st) ==
    LET s1 == [Logged(st, "initApp") EXCEPT !.promise = "pending"]
    IN  IF baseUrl = Undefined
        THEN FetchManifestCatch(Logged(s1, "throw"), Error("TypeError", <<>>))
        ELSE [Logged(s1, "fetch") EXCEPT
                !.requests = Append(@, ManifestUrl(baseUrl)), !.pc = "Fetching"]

\* the loader script runs: readyState check at the end of the IIFE
RunLoader ==
    /\ pc = "Load"
    /\ IF readyState = "loading"
       THEN Apply([St EXCEPT !.pc = "WaitDOM"])
       ELSE Apply(initApp(St))

\* the listener registered on DOMContentLoaded; the document is then no longer loading
DOMContentLoaded ==
    /\ pc = "WaitDOM"
    /\ ApplyPipeline(initApp(St))
    /\ readyState' = "interactive"
    /\ UNCHANGED <<baseUrl, urlArg, urlOut, image, mount>>

\* FetchSettled requesting the manifest a second time after a rejection
FetchSettled_Retry ==
    /\ pc = "Fetching"
    /\ \E outcome \in {"rejected", "notOk", "ok"} :
         IF outcome = "rejected" /\ Len(requests) < 2
         THEN Apply([Logged(St, "fetch.rejected") EXCEPT
                       !.requests = Append(@, ManifestUrl(baseUrl))])
         ELSE IF outcome = "notOk"
         THEN Apply(FetchManifestCatch(Logged(St, "throw"), Error("Status", <<>>)))
         ELSE Apply([St EXCEPT !.pc = "Parsing"])

\* await fetch(manifestUrl) settles
FetchSettled ==
    /\ pc = "Fetching"
    /\ \E outcome \in {"rejected", "notOk", "ok"} :
         IF outcome = "rejected"
         THEN Apply(FetchManifestCatch(Logged(St, "fetch.rejected"), Error("Transport", <<>>)))
         ELSE IF outcome = "notOk"
         THEN Apply(FetchManifestCatch(Logged(St, "throw"), Error("Status", <<>>)))
         ELSE Apply([St EXCEPT !.pc = "Parsing"])

\* await response.json() settles: it rejects, or it fulfils with one of bodies
JsonSettledFrom(bodies) ==
    /\ pc = "Parsing"
    /\ \/ Apply(FetchManifestCatch(Logged(St, "json.rejected"), Error("Parse", <<>>)))
       \/ \E body \in bodies : Apply(AfterManifest(St, body))

\* await response.json() settles
JsonSettled == JsonSettledFrom(ParsedBodies)

\* LinkLoad whose handler does not resolve the promise initApp awaits
LinkLoad_NeverResolves ==
    /\ pc = "CssLoading"
    /\ Apply([Logged(St, "link.onload") EXCEPT !.linkState = "loaded", !.pc = "Stalled"])

\* link.onload
LinkLoad ==
    /\ pc = "CssLoading"
    /\ Apply(loadJavaScript([Logged(St, "link.onload") EXCEPT !.linkState = "loaded"],
                            assets.js))

\* LinkError with the rejection swallowed: the script is loaded anyway
LinkError_Swallowed ==
    /\ pc = "CssLoading"
    /\ Apply(loadJavaScript([Logged(St, "link.onerror") EXCEPT !.linkState = "failed"],
                            assets.js))

\* link.onerror
LinkError ==
    /\ pc = "CssLoading"
    /\ Apply(InitAppCatch([Logged(St, "link.onerror") EXCEPT !.linkState = "failed"],
                          Error("StylesheetLoad", document.head[Len(document.head)].url)))

\* patchExistingImages rewriting every url(...) of the style, absolute or not
patchExistingImages_All(st) ==
    [Logged(st, "patchExistingImages") EXCEPT
        !.document.touched = TRUE,
        !.document.rootStyleLeft =
            IF st.document.rootStyleFound # Unset
            THEN joinUrl(st.window.resolverBase, st.document.rootStyleFound)
            ELSE st.document.rootStyleFound]

\* patchExistingImages, on the root element: img src attributes are removed
\* and set back to the same value; a relative url(...) in an inline style
\* containing "background" is replaced by window.__resolveAssetUrl of it
patchExistingImages(st) ==
    [Logged(st, "patchExistingImages") EXCEPT
        !.document.touched = TRUE,
        !.document.rootStyleLeft =
            IF st.document.rootStyleFound # Unset /\ IsRelative(st.document.rootStyleFound)
            THEN resolveAssetUrl(st.window.resolverBase, st.document.rootStyleFound)
            ELSE st.document.rootStyleFound]

\* script.onload, then patchExistingImages, which reads the style attribute
\* the root element has by then
ScriptLoad ==
    /\ pc = "JsLoading"
    /\ \E style \in IF document.rootPresent THEN RootStyles ELSE {Unset} :
         Apply([patchExistingImages([Logged(St, "script.onload") EXCEPT
                                       !.document.rootStyleFound = style,
                                       !.document.rootStyleLeft = style]) EXCEPT
                  !.scriptState = "loaded", !.pc = "Ready", !.promise = "fulfilled"])

\* ScriptError going on to patchExistingImages after the failure
ScriptError_Patch ==
    /\ pc = "JsLoading"
    /\ Apply(patchExistingImages(
                InitAppCatch([Logged(St, "script.onerror") EXCEPT !.scriptState = "failed"],
                             Error("ScriptLoad", document.head[Len(document.head)].url))))

\* script.onerror
ScriptError ==
    /\ pc = "JsLoading"
    /\ Apply(InitAppCatch([Logged(St, "script.onerror") EXCEPT !.scriptState = "failed"],
                          Error("ScriptLoad", document.head[Len(document.head)].url)))

Init ==
    /\ baseUrl \in BaseUrls
    /\ readyState \in {"loading", "interactive"}
    /\ pc = "Load"
    /\ promise = "none"
    /\ globalManifest = NullManifest
    /\ assets = NoAssets
    /\ \E rootPresent \in BOOLEAN : document = InitDocument(rootPresent)
    /\ window = InitWindow
    /\ linkState = "none"
    /\ scriptState = "none"
    /\ lastError = NoError
    /\ requests = <<>>
    /\ log = <<>>
    /\ urlArg = Unset
    /\ urlOut = NoUrlOut
    /\ image = NoImage
    /\ mount = NoMount

Next ==
    \/ RunLoader
    \/ DOMContentLoaded
    \/ FetchSettled
    \/ JsonSettled
    \/ LinkLoad
    \/ LinkError
    \/ ScriptLoad
    \/ ScriptError

Spec == Init /\ [][Next]_vars

-----------------------------------------------------------------------------
(* The pipeline under the assumption that every issued operation reports *)

MaxLiveEntries == 1

\* manifests that differ in what decides the pipeline's path: the keys and
\* isEntry flags (an entry is found or not) and the presence of a stylesheet
LiveEntries == [key : Keys, file : {FileApp}, isEntry : BOOLEAN, css : {<<>>, <<CssA, CssB>>}]

LiveManifestsOfLen(n) ==
    {m \in [1..n -> LiveEntries] : \A i, j \in 1..n : i # j => m[i].key # m[j].key}

LiveBodies ==
    {ObjectManifest(m) : m \in UNION {LiveManifestsOfLen(k) : k \in 0..MaxLiveEntries}}
        \cup {[shape |-> "nullEntry", entries |-> <<>>], [shape |-> "jsonNull", entries |-> <<>>]}

JsonSettledLive == JsonSettledFrom(LiveBodies)

NextLive ==
    \/ RunLoader
    \/ DOMContentLoaded
    \/ FetchSettled
    \/ JsonSettledLive
    \/ LinkLoad
    \/ LinkError
    \/ ScriptLoad
    \/ ScriptError

\* every issued operation reports: the fetch settles, the body parse settles,
\* the link and the script elements fire load or error
Reports ==
    /\ WF_vars(FetchSettled)
    /\ WF_vars(JsonSettledLive)
    /\ WF_vars(LinkLoad \/ LinkError)
    /\ WF_vars(ScriptLoad \/ ScriptError)

SpecLive == Init /\ [][NextLive]_vars /\ Reports

----------------------------------------------------------------------------
(* findMainAssets called directly on a manifest *)

InitFind ==
    /\ baseUrl = BaseNoSlash
    /\ readyState = "interactive"
    /\ pc = "Direct"
    /\ promise = "none"
    /\ \E m \in ManifestsUpTo(MaxEntries) : globalManifest = ObjectManifest(m)
    /\ assets = NoAssets
    /\ document = InitDocument(TRUE)
    /\ window = InitWindow
    /\ linkState = "none"
    /\ scriptState = "none"
    /\ lastError = NoError
    /\ requests = <<>>
    /\ log = <<>>
    /\ urlArg = Unset
    /\ urlOut = NoUrlOut
    /\ image = NoImage
    /\ mount = NoMount

CallFindMainAssets ==
    /\ pc = "Direct"
    /\ log = <<>>
    /\ Apply([Logged(St, "findMainAssets") EXCEPT
                !.assets = findMainAssets(globalManifest.entries)])

NextFind == CallFindMainAssets

SpecFind == InitFind /\ [][NextFind]_vars

----------------------------------------------------------------------------
(* The URL functions called directly, on a page where setupAssetResolver   *)
(* has run                                                                 *)

PathChars == {"/", "y"}

Tails == UNION {[1..n -> PathChars] : n \in 0..MaxTailLen}

PathPrefixes == {<<>>, SLASH, HTTP, HTTPS, DATA, BLOB}

YJs == <<"y", ".", "j", "s">>

Paths == {p \o t : p \in PathPrefixes, t \in Tails} \cup {YJs, SLASH \o YJs}

UrlBases == {BaseNoSlash, BaseSlash, BaseSlash \o SLASH}

InitUrl ==
    /\ baseUrl \in UrlBases
    /\ readyState = "interactive"
    /\ pc = "Direct"
    /\ promise = "none"
    /\ globalManifest = ObjectManifest(<<>>)
    /\ assets = NoAssets
    /\ document = InitDocument(TRUE)
    /\ window = InstallResolver(InitWindow, baseUrl)
    /\ linkState = "none"
    /\ scriptState = "none"
    /\ lastError = NoError
    /\ requests = <<>>
    /\ log = <<>>
    /\ urlArg \in Paths
    /\ urlOut = NoUrlOut
    /\ image = NoImage
    /\ mount = NoMount

CallJoinUrl ==
    /\ pc = "Direct"
    /\ urlArg # Unset
    /\ urlOut.joinUrl = Unset
    /\ urlOut' = [urlOut EXCEPT !.joinUrl = joinUrl(baseUrl, urlArg)]
    /\ UNCHANGED <<baseUrl, readyState, pc, promise, globalManifest, assets, document,
                   window, linkState, scriptState, lastError, requests, log, urlArg,
                   image, mount>>

CallResolveAssetUrl ==
    /\ pc = "Direct"
    /\ urlArg # Unset
    /\ window.resolveAssetUrl
    /\ urlOut.resolveAssetUrl = Unset
    /\ urlOut' = [urlOut EXCEPT
                    !.resolveAssetUrl = resolveAssetUrl(window.resolverBase, urlArg)]
    /\ UNCHANGED <<baseUrl, readyState, pc, promise, globalManifest, assets, document,
                   window, linkState, scriptState, lastError, requests, log, urlArg,
                   image, mount>>

CallLoadJavaScript ==
    /\ pc = "Direct"
    /\ urlArg # Unset
    /\ scriptState = "none"
    /\ Apply([loadJavaScript(St, urlArg) EXCEPT !.pc = "Direct"])

CallLoadStylesheet ==
    /\ pc = "Direct"
    /\ urlArg # Unset
    /\ linkState = "none"
    /\ Apply([loadStylesheet(St, urlArg) EXCEPT !.pc = "Direct"])

NextUrl ==
    \/ CallJoinUrl
    \/ CallResolveAssetUrl
    \/ CallLoadJavaScript
    \/ CallLoadStylesheet

SpecUrl == InitUrl /\ [][NextUrl]_vars

----------------------------------------------------------------------------
(* The page after setupAssetResolver: the application assigns image        *)
(* sources and calls window.__resolveAssetUrl; a second loader instance    *)
(* (another SPA on the same page) may run its own setupAssetResolver.      *)

MaxSecondEntries == 1   \* entries of the second loader's manifest

BaseOther == <<"h", "t", "t", "p", "s", ":", "/", "/", "z">>
KeySrcLogo == <<"s", "r", "c", "/", "l", "o", "g", "o", ".", "p", "n", "g">>
KeyLogo == <<"l", "o", "g", "o", ".", "p", "n", "g">>
KeyIcon == <<"i", "c", "o", "n", ".", "s", "v", "g">>
FileLogoHashed == <<"l", "o", "g", "o", ".", "h", "1", ".", "p", "n", "g">>
FileIconHashed == <<"i", "c", "o", "n", ".", "h", "2", ".", "s", "v", "g">>
PathOther == <<"o", "t", "h", "e", "r", ".", "g", "i", "f">>

PatchKeys == {KeySrcLogo, KeyLogo, KeyIcon}
PatchFiles == {FileLogoHashed, FileIconHashed}
AssetLists == {<<>>, <<FileLogoHashed>>}

PatchEntries ==
    [key : PatchKeys, file : PatchFiles, isEntry : {FALSE}, css : {<<>>}, assets : AssetLists]

PatchManifestsOfLen(n) ==
    {m \in [1..n -> PatchEntries] : \A i, j \in 1..n : i # j => m[i].key # m[j].key}

PatchManifestsUpTo(n) == UNION {PatchManifestsOfLen(k) : k \in 0..n}

\* values the application assigns or resolves
PatchPaths ==
    {KeySrcLogo, SLASH \o KeySrcLogo, KeyLogo, KeyIcon, FileLogoHashed, PathOther,
     SLASH \o SLASH \o PathOther, HTTP \o PathOther, HTTPS \o PathOther, DATA \o PathOther,
     BLOB \o PathOther, <<>>}

FirstBases == {BaseNoSlash, BaseSlash}
SecondBases == {BaseSlash, BaseOther}

InitPatch ==
    /\ baseUrl \in FirstBases
    /\ readyState = "interactive"
    /\ pc = "Direct"
    /\ promise = "pending"
    /\ \E m \in PatchManifestsUpTo(MaxEntries) : globalManifest = ObjectManifest(m)
    /\ assets = NoAssets
    /\ document = [InitDocument(TRUE) EXCEPT
                      !.touched = TRUE,
                      !.head = <<Element("inline-script", <<>>), Element("meta", <<>>)>>]
    /\ window = InstallInterception(InstallResolver(InitWindow, baseUrl), baseUrl,
                                    globalManifest.entries)
    /\ linkState = "none"
    /\ scriptState = "none"
    /\ lastError = NoError
    /\ requests = <<ManifestUrl(baseUrl)>>
    /\ log = <<"initApp", "fetch", "setupAssetResolver">>
    /\ urlArg \in PatchPaths
    /\ urlOut = NoUrlOut
    /\ image = NoImage
    /\ mount = NoMount

\* setupAssetResolver of a second loader, with its own config and manifest
SecondLoaderSetup ==
    /\ pc = "Direct"
    /\ Len(window.srcLayers) = 1
    /\ image = NoImage
    /\ urlOut = NoUrlOut
    /\ \E base \in SecondBases, m \in PatchManifestsUpTo(MaxSecondEntries) :
         Apply([Logged(St, "setupAssetResolver") EXCEPT
                  !.window = InstallInterception(InstallResolver(@, base), base, m),
                  !.document.head = @ \o <<Element("inline-script", <<>>), Element("meta", <<>>)>>])

\* the application runs img.src = urlArg
AssignImageSrc ==
    /\ pc = "Direct"
    /\ window.imageSrcPatched
    /\ image = NoImage
    /\ LET r == SetThrough(window.srcLayers, urlArg)
       IN  image' = [assigned |-> urlArg, native |-> r.native, calls |-> r.calls,
                     rewrites |-> r.rewrites]
    /\ UNCHANGED <<baseUrl, readyState, pc, promise, globalManifest, assets, document,
                   window, linkState, scriptState, lastError, requests, log, urlArg,
                   urlOut, mount>>

NextPatch ==
    \/ SecondLoaderSetup
    \/ AssignImageSrc
    \/ CallResolveAssetUrl

SpecPatch == InitPatch /\ [][NextPatch]_vars

-----------------------------------------------------------------------------
(* A page that sets window.SpaLoaderConfig and has several elements matching
   its containerSelector; the loader resolves its target by
   document.getElementById(config.rootElementId) *)

MaxContainers == 3

rootElementId == "root"

\* the values the README documents for SpaLoaderConfig.mountStrategy
MountStrategies == {"first", "last", "all"}

\* the elements matching containerSelector, in document order, each with its id
ElementIds == {rootElementId, "other"}
ContainersOfLen(n) == [1..n -> [id : ElementIds, html : {NoPanel}]]
ContainersUpTo(n) == UNION {ContainersOfLen(k) : k \in 0..n}

\* document.getElementById: the first element with the id, 0 for null
getElementById(elements, id) ==
    Find([i \in DOMAIN elements |-> elements[i].id = id])

\* showErrorMessage on the page's elements
showErrorMessageOnPage(elements, message) ==
    LET i == getElementById(elements, rootElementId)
    IN  IF i = 0 THEN elements
        ELSE [elements EXCEPT ![i].html = Panel(message)]

\* the errors initApp's catch receives once the page is loaded
MountErrors ==
    {Error("Transport", <<>>), Error("Status", <<>>), Error("Parse", <<>>),
     Error("NoEntry", <<>>), Error("StylesheetLoad", <<>>), Error("ScriptLoad", <<>>)}

InitMount ==
    /\ baseUrl = BaseNoSlash
    /\ readyState = "interactive"
    /\ pc = "Direct"
    /\ promise = "none"
    /\ globalManifest = NullManifest
    /\ assets = NoAssets
    /\ document = InitDocument(TRUE)
    /\ window = InitWindow
    /\ linkState = "none"
    /\ scriptState = "none"
    /\ lastError = NoError
    /\ requests = <<>>
    /\ log = <<>>
    /\ urlArg = Unset
    /\ urlOut = NoUrlOut
    /\ image = NoImage
    /\ \E strategy \in MountStrategies, show \in BOOLEAN,
          elements \in ContainersUpTo(MaxContainers) :
         mount = [mountStrategy |-> strategy, showErrors |-> show,
                  elements |-> elements, stage |-> "Running", error |-> NoError]

\* initApp's catch on this page; a fetchManifest failure has shown the
\* manifest message in the same element first
MountFailure ==
    /\ mount.stage = "Running"
    /\ \E error \in MountErrors :
         mount' = [mount EXCEPT
                     !.stage = "Failed",
                     !.error = error,
                     !.elements = showErrorMessageOnPage(
                         IF error.kind \in {"Transport", "Status", "Parse"}
                         THEN showErrorMessageOnPage(@, ManifestMessage)
                         ELSE @,
                         ResourceMessage(error))]
    /\ UNCHANGED <<baseUrl, readyState, pc, promise, globalManifest, assets, document,
                   window, linkState, scriptState, lastError, requests, log, urlArg,
                   urlOut, image>>

\* initApp completes on this page: no element is written
MountReady ==
    /\ mount.stage = "Running"
    /\ mount' = [mount EXCEPT !.stage = "Ready"]
    /\ UNCHANGED <<baseUrl, readyState, pc, promise, globalManifest, assets, document,
                   window, linkState, scriptState, lastError, requests, log, urlArg,
                   urlOut, image>>

NextMount ==
    \/ MountFailure
    \/ MountReady

SpecMount == InitMount /\ [][NextMount]_vars

----------------------------------------------------------------------------
(* Properties *)

Positions(event) == {i \in DOMAIN log : log[i] = event}

Count(event) == Cardinality(Positions(event))

HeadUrls(tag) == {document.head[i].url : i \in {j \in DOMAIN document.head : document.head[j].tag = tag}}

HeadCount(tag) == Cardinality({j \in DOMAIN document.head : document.head[j].tag = tag})

FailureEvents == {"throw", "fetch.rejected", "json.rejected", "link.onerror", "script.onerror"}

Manifest == globalManifest.entries

\* C1: when findMainAssets selected a stylesheet, the entry script element is
\* created (loadJavaScript is entered) only after link.onload has fired: never
\* while the stylesheet load is pending and never after it has failed.
C1_StylesheetBeforeScript ==
    (pc # "Direct" /\ assets.ok /\ assets.css # <<>>) =>
        /\ \A i \in Positions("loadJavaScript") :
             \E j \in Positions("link.onload") : j < i
        /\ (HeadCount("script") > 0 \/ scriptState # "none") => linkState = "loaded"

C1_Witness ==
    /\ pc = "JsLoading"
    /\ assets.css # <<>>
    /\ linkState = "loaded"
    /\ HeadCount("script") = 1

\* C2: for every kind of pipeline failure (manifest transport failure, non-ok
\* status, body parse failure, no entry found, stylesheet load error, script
\* load error) showErrorMessage is invoked exactly once in the run, which then
\* halts in Failed.
C2_ErrorShownExactlyOnce ==
    (lastError.kind \in {"Transport", "Status", "Parse", "NoEntry", "StylesheetLoad", "ScriptLoad"}) =>
        (pc = "Failed" /\ Count("showErrorMessage") = 1)

\* C3: no failure escapes the pipeline: whichever stage fails, the error is
\* caught by initApp's handler, the promise returned by initApp never rejects,
\* and the run is in Failed, where no further step is possible.
C3_NoFailureEscapes ==
    /\ promise # "rejected"
    /\ (\E i \in DOMAIN log : log[i] \in FailureEvents) =>
         (pc = "Failed" /\ promise = "fulfilled" /\ lastError # NoError)
    /\ pc = "Failed" => ~ENABLED Next

C3_Witness ==
    /\ pc = "Failed"
    /\ promise = "fulfilled"
    /\ lastError.kind = "TypeError"
    /\ globalManifest.shape = "nullEntry"

\* C4: when config.baseUrl is absent or the empty string, the pipeline aborts
\* before any network request and before any DOM query or DOM mutation.
C4_NoNetworkOrDomWithoutBaseUrl ==
    (baseUrl \in {<<>>, Undefined}) => (requests = <<>> /\ ~document.touched)

\* C5: findMainAssets selects the entry by three rules in strict order, first
\* match wins: (1) isEntry with a file starting with 'YDTB.', else (2) any
\* isEntry entry, else (3) the entry under a key containing 'main.' or '/main';
\* an earlier rule's match wins wherever the later rules' matches stand.
C5_EntryRuleOrder ==
    (pc = "Direct" /\ log = <<"findMainAssets">>) =>
        LET m == Manifest
            R1 == {i \in DOMAIN m : m[i].isEntry /\ StartsWith(m[i].file, PREFIX)}
            R2 == {i \in DOMAIN m : m[i].isEntry}
            R3 == {i \in DOMAIN m : Includes(m[i].key, MAIN_DOT) \/ Includes(m[i].key, SLASH_MAIN)}
            First(R) == CHOOSE i \in R : \A j \in R : i <= j
        IN  /\ R1 # {} => (assets.ok /\ assets.js = m[First(R1)].file)
            /\ (R1 = {} /\ R2 # {}) => (assets.ok /\ assets.js = m[First(R2)].file)
            /\ (R2 = {} /\ R3 # {}) => (assets.ok /\ assets.js = m[First(R3)].file)
            /\ (R2 = {} /\ R3 = {}) => ~assets.ok

\* a rule-1 match returned although a rule-2 and rule-3 match stands before it
C5_Witness ==
    /\ pc = "Direct"
    /\ log = <<"findMainAssets">>
    /\ Len(Manifest) = 2
    /\ Manifest[1].isEntry /\ Manifest[1].file = FileApp /\ Manifest[1].key = KeyMainTs
    /\ Manifest[2].isEntry /\ Manifest[2].file = FileYdtb
    /\ assets.js = FileYdtb

\* C6: for every manifest of two entries of which exactly one has isEntry true,
\* findMainAssets returns that entry's file as the script, in both key orders
\* and whatever the keys and file names are.
C6_SingleEntryOfTwo ==
    (pc = "Direct" /\ log = <<"findMainAssets">> /\ Len(Manifest) = 2) =>
        \A i \in 1..2 :
            (Manifest[i].isEntry /\ ~Manifest[3 - i].isEntry) =>
                (assets.ok /\ assets.js = Manifest[i].file)

\* the isEntry entry stands second, after a non-entry under a main key
C6_Witness ==
    /\ pc = "Direct"
    /\ log = <<"findMainAssets">>
    /\ Len(Manifest) = 2
    /\ ~Manifest[1].isEntry /\ Manifest[1].key = KeySrcMain /\ Manifest[1].file = FileYdtb
    /\ Manifest[2].isEntry /\ Manifest[2].file = FileApp
    /\ assets.js = FileApp

C8_StylesheetSelection ==
    (pc # "Direct" /\ assets.ok) =>
        LET m == Manifest
            chosen == m[MainJsIndex(m)]
            all == FlatCss(m)
            P == {k \in DOMAIN all : StartsWith(all[k], PREFIX)}
        IN  /\ chosen.css # <<>> => assets.css = chosen.css[1]
            /\ (chosen.css = <<>> /\ P # {}) =>
                 \E k \in P : assets.css = all[k] /\ \A j \in P : k <= j
            /\ (chosen.css = <<>> /\ P = {} /\ all # <<>>) => assets.css = all[1]
            /\ all = <<>> => assets.css = <<>>
            /\ HeadCount("link") = (IF assets.css # <<>> THEN 1 ELSE 0)
            /\ HeadUrls("link") \subseteq {FullUrl(baseUrl, assets.css)}

\* css ["a.css", "b.css"]: only a.css is injected
C8_Witness ==
    /\ pc = "Ready"
    /\ Manifest[MainJsIndex(Manifest)].css = <<CssA, CssB>>
    /\ HeadUrls("link") = {FullUrl(baseUrl, CssA)}
    /\ HeadCount("link") = 1

StripTrailingSlash(base) == IF base # <<>> /\ base[Len(base)] = "/" THEN DropLast(base) ELSE base

StripLeadingSlash(path) == IF path # <<>> /\ path[1] = "/" THEN DropFirst(path) ELSE path

Joined(base, path) == StripTrailingSlash(base) \o SLASH \o StripLeadingSlash(path)

\* C9: the URL given to an injected script or stylesheet element, and the one
\* returned by joinUrl, is the base with one trailing slash removed, a single
\* '/', and the path with one leading slash removed.
C9_JoinRule ==
    (pc = "Direct" /\ urlArg \notin {Unset, <<>>}) =>
        /\ HeadUrls("script") \subseteq {Joined(baseUrl, urlArg)}
        /\ HeadUrls("link") \subseteq {Joined(baseUrl, urlArg)}
        /\ urlOut.joinUrl \in {Unset, Joined(baseUrl, urlArg)}

\* C10: window.__resolveAssetUrl returns its argument unchanged for every input
\* starting with 'http://', 'https://', 'data:' or 'blob:'.
C10_AbsoluteIdentity ==
    (/\ pc = "Direct"
     /\ urlOut.resolveAssetUrl # Unset
     /\ \E scheme \in {HTTP, HTTPS, DATA, BLOB} : StartsWith(urlArg, scheme)) =>
        urlOut.resolveAssetUrl = urlArg

\* the loader instance whose __resolveAssetUrl and src setter are outermost
Outer == window.srcLayers[Len(window.srcLayers)]

\* the published path the asset map of a layer gives for a value, else the
\* value itself, both without the leading slash
Target(layer, url) ==
    IF StripLeadingSlash(url) \in DOMAIN layer.assetMap
    THEN layer.assetMap[StripLeadingSlash(url)]
    ELSE StripLeadingSlash(url)

\* C11: for every relative path that is a key of the asset map (with or
\* without a leading slash), window.__resolveAssetUrl returns baseUrl joined
\* with the mapped published path.
C11_ResolverUsesAssetMap ==
    (/\ window.srcLayers # <<>>
     /\ urlOut.resolveAssetUrl # Unset
     /\ urlArg # <<>>
     /\ IsRelative(urlArg)
     /\ StripLeadingSlash(urlArg) \in DOMAIN Outer.assetMap) =>
        urlOut.resolveAssetUrl = Joined(window.resolverBase, Target(Outer, urlArg))

C13_TwoLayersRewriteOnce ==
    (/\ Len(window.srcLayers) = 2
     /\ image.assigned \notin {Unset, <<>>}
     /\ IsRelative(image.assigned)) =>
        /\ image.rewrites = 1
        /\ image.calls = 2
        /\ image.native = Joined(Outer.base, Target(Outer, image.assigned))

C13_Witness ==
    /\ Len(window.srcLayers) = 2
    /\ image.assigned = KeySrcLogo
    /\ KeySrcLogo \in DOMAIN Outer.assetMap
    /\ KeySrcLogo \in DOMAIN window.srcLayers[1].assetMap
    /\ Outer.base # window.srcLayers[1].base
    /\ image.native = Joined(Outer.base, Outer.assetMap[KeySrcLogo])
    /\ image.rewrites = 1

\* C18: re-installation of the image-source interception is a no-op: the src
\* setter stays the one installed first, the number of interception layers
\* never exceeds one, and relative image sources keep resolving against the
\* first instance's baseUrl and asset map.
C18_ReinstallIsNoOp ==
    (pc = "Direct" /\ window.srcLayers # <<>>) =>
        /\ Len(window.srcLayers) <= 1
        /\ (image.assigned \notin {Unset, <<>>} /\ IsRelative(image.assigned)) =>
             image.native = Joined(baseUrl, Target([base |-> baseUrl,
                                                    assetMap |-> AssetMap(Manifest)],
                                                   image.assigned))

\* C19: for every relative value assigned to an image's src, the value passed
\* to the underlying setter equals window.__resolveAssetUrl of the same value;
\* values starting with 'http://', 'https://', 'data:' or 'blob:' are passed
\* unchanged.
C19_SetterAgreesWithResolver ==
    (/\ window.srcLayers # <<>>
     /\ image.assigned # Unset
     /\ urlOut.resolveAssetUrl # Unset) =>
        IF IsRelative(image.assigned)
        THEN image.native = urlOut.resolveAssetUrl
        ELSE image.native = image.assigned

\* C14: with mount strategy 'all' and three elements matching the container
\* selector, a pipeline failure replaces the content of all three with the
\* error panel.
C14_AllContainersShowError ==
    (/\ mount.stage = "Failed"
     /\ mount.mountStrategy = "all"
     /\ Len(mount.elements) = 3) =>
        \A i \in DOMAIN mount.elements :
            mount.elements[i].html = Panel(ResourceMessage(mount.error))

\* every occurrence of the second event has the first event before it
Before(first, second) ==
    \A i \in DOMAIN log : log[i] = second => \E j \in 1..(i - 1) : log[j] = first

C16_FailureStopsLaterStages ==
    /\ (lastError.kind \in {"Transport", "Status", "Parse"} =>
            /\ Count("findMainAssets") = 0
            /\ assets = NoAssets
            /\ HeadCount("link") = 0
            /\ HeadCount("script") = 0)
    /\ (lastError.kind = "NoEntry" =>
            (HeadCount("link") = 0 /\ HeadCount("script") = 0))
    /\ (lastError.kind = "StylesheetLoad" =>
            (HeadCount("script") = 0 /\ Count("loadJavaScript") = 0))
    /\ (lastError # NoError =>
            (pc = "Failed" /\ Count("patchExistingImages") = 0 /\ ~ENABLED Next))

C16_Witness ==
    /\ pc = "Failed"
    /\ lastError.kind = "StylesheetLoad"
    /\ HeadCount("link") = 1
    /\ Count("findMainAssets") = 1

\* C17: when no entry of the manifest has a stylesheet path, no link element
\* is injected, showErrorMessage is not called because of it, and the entry
\* script is injected.
C17_NoStylesheetSkipped ==
    (pc # "Direct" /\ assets.ok /\ FlatCss(Manifest) = <<>>) =>
        /\ assets.css = <<>>
        /\ HeadCount("link") = 0
        /\ Count("loadStylesheet") = 0
        /\ linkState = "none"
        /\ HeadCount("script") = 1
        /\ Count("loadJavaScript") = 1
        /\ (Count("showErrorMessage") > 0 => lastError.kind = "ScriptLoad")

C17_Witness ==
    /\ pc = "Ready"
    /\ Manifest # <<>>
    /\ FlatCss(Manifest) = <<>>
    /\ HeadCount("script") = 1
    /\ Count("showErrorMessage") = 0

StripSrcPrefix(key) ==
    IF StartsWith(key, SRC_PREFIX) THEN SubSeq(key, Len(SRC_PREFIX) + 1, Len(key)) ELSE key

\* C23: in the asset map built by setupAssetResolver, every manifest entry's
\* key maps to that entry's published file, and the key without the leading
\* 'src/' maps to the same file, whatever the order of the keys and whatever
\* other keys and assets lists the manifest has.
C23_AssetMapKeys ==
    (pc = "Direct" /\ window.srcLayers # <<>>) =>
        LET map == window.srcLayers[1].assetMap
        IN  \A i \in DOMAIN Manifest :
                /\ Manifest[i].key \in DOMAIN map
                /\ map[Manifest[i].key] = Manifest[i].file
                /\ StripSrcPrefix(Manifest[i].key) \in DOMAIN map
                /\ map[StripSrcPrefix(Manifest[i].key)] = Manifest[i].file

\* C22: in any run of one loader instance the manifest is requested at most
\* once, at most one stylesheet link and at most one entry script element are
\* injected, and initApp is started exactly once, immediately or on
\* DOMContentLoaded.
C22_NothingRetried ==
    /\ Len(requests) <= 1
    /\ HeadCount("link") <= 1
    /\ HeadCount("script") <= 1
    /\ Count("initApp") = IF pc \in {"Load", "WaitDOM", "Direct"} THEN 0 ELSE 1

C22_Witness ==
    /\ pc = "Failed"
    /\ lastError.kind = "ScriptLoad"
    /\ Count("initApp") = 1
    /\ Len(requests) = 1
    /\ HeadCount("link") = 1
    /\ HeadCount("script") = 1

Awaiting == {"Fetching", "Parsing", "CssLoading", "JsLoading"}

\* at an await only the report of the awaited operation can resume initApp
OnlyTheReportResumes ==
    /\ (pc = "Fetching" =>
          ~ENABLED (RunLoader \/ DOMContentLoaded \/ JsonSettledLive \/ LinkLoad \/ LinkError
                      \/ ScriptLoad \/ ScriptError))
    /\ (pc = "Parsing" =>
          ~ENABLED (RunLoader \/ DOMContentLoaded \/ FetchSettled \/ LinkLoad \/ LinkError
                      \/ ScriptLoad \/ ScriptError))
    /\ (pc = "CssLoading" =>
          ~ENABLED (RunLoader \/ DOMContentLoaded \/ FetchSettled \/ JsonSettledLive
                      \/ ScriptLoad \/ ScriptError))
    /\ (pc = "JsLoading" =>
          ~ENABLED (RunLoader \/ DOMContentLoaded \/ FetchSettled \/ JsonSettledLive
                      \/ LinkLoad \/ LinkError))
    /\ (pc \notin Awaiting \cup {"Load", "WaitDOM"} => pc \in {"Ready", "Failed"})

\* C21: once initApp has started, and provided every issued operation
\* reports completion or error, the pipeline reaches Ready or Failed; while
\* an operation has not reported, the pipeline stays at that stage: no other
\* step resumes it.
C21_RunsToReadyOrFailed ==
    /\ (Count("initApp") > 0) ~> (pc \in {"Ready", "Failed"})
    /\ []OnlyTheReportResumes

C21_Witness ==
    /\ pc = "Ready"
    /\ ~document.rootPresent
    /\ Count("link.onload") = 1
    /\ Count("script.onload") = 1
    /\ promise = "fulfilled"

=============================================================================
